---- MODULE Spec2Model ----
(***************************************************************************)
(* Model of langchain_community/llms/sambanova.py: the two endpoint        *)
(* handlers (SVEndpointHandler = Variant "A", SSEndpointHandler =          *)
(* Variant "B") and the two facades (Sambaverse = "A", SambaStudio = "B"). *)
(*                                                                         *)
(* Text is modelled as a sequence of lexemes.  A lexeme is an atomic piece *)
(* of text: one character such as "a" or QUOTE, or one of the fixed words  *)
(* the code looks for (DATA_PREFIX is the six characters `data: `).        *)
(* json.dumps / json.loads are modelled on lexeme sequences by DumpValue   *)
(* and JsonLoads below, so that encoding and decoding are real functions.  *)
(***************************************************************************)
EXTENDS Naturals, Sequences, FiniteSets, TLC

(* ------------------------------ bounds -------------------------------- *)

\* longest completion string X the server may place in a batch body
MaxStrLen == 2
\* most server-sent events in one streamed response
MaxEvents == 4
\* most calls made on one facade
MaxCalls == 2

(* --------------------------- text and JSON ---------------------------- *)

QUOTE == "\""
BSLASH == "\\"
DATA_PREFIX == "data: "

\* the text of an integer, as str(int) / an f-string renders it
IntText(n) ==
    IF n = 200 THEN <<"200">> ELSE IF n = 500 THEN <<"500">> ELSE <<"0">>

\* JSON / Python values; each kind has its own field name
JStr(s) == [t |-> "str", s |-> s]
JNum(n) == [t |-> "num", n |-> n]
JList(items) == [t |-> "list", items |-> items]
JObj(members) == [t |-> "obj", members |-> members]
JFloat(repr) == [t |-> "float", repr |-> repr]

RECURSIVE Flatten(_)
\* the texts of ss joined end to end
Flatten(ss) ==
    IF Len(ss) = 0 THEN <<>>
    ELSE IF Len(ss) = 1 THEN ss[1]
    ELSE Flatten(SubSeq(ss, 1, Len(ss) \div 2))
         \o Flatten(SubSeq(ss, Len(ss) \div 2 + 1, Len(ss)))

\* json.dumps of the inside of a string: QUOTE and BSLASH get a BSLASH
Escape(s) ==
    Flatten([i \in 1..Len(s) |->
               IF s[i] \in {QUOTE, BSLASH} THEN <<BSLASH, s[i]>> ELSE <<s[i]>>])

DumpStr(s) == <<QUOTE>> \o Escape(s) \o <<QUOTE>>

\* the separator json.dumps writes before the i-th element or member
Comma(i) == IF i > 1 THEN <<",">> ELSE <<>>

RECURSIVE DumpValue(_)
\* json.dumps(v)
DumpValue(v) ==
    CASE v.t = "str" -> DumpStr(v.s)
      [] v.t = "num" -> IntText(v.n)
      [] v.t = "float" -> v.repr
      [] v.t = "list" ->
           <<"[">>
           \o Flatten([i \in 1..Len(v.items) |->
                         Comma(i) \o DumpValue(v.items[i])])
           \o <<"]">>
      [] v.t = "obj" ->
           <<"{">>
           \o Flatten([i \in 1..Len(v.members) |->
                         Comma(i) \o DumpStr(v.members[i][1]) \o <<":">>
                         \o DumpValue(v.members[i][2])])
           \o <<"}">>

\* result of a parse step: ok, the value, and the text left over
POk(v, rest) == [ok |-> TRUE, val |-> v, rest |-> rest]
PFail == [ok |-> FALSE, val |-> JNum(0), rest |-> <<>>]

\* the number of BSLASH lexemes that come right before position i of s
BackslashRun(s, i) ==
    CHOOSE k \in 0..(i - 1) :
        /\ k = i - 1 \/ s[i - 1 - k] # BSLASH
        /\ \A m \in 1..k : s[i - m] = BSLASH

\* position i of s is not escaped by a BSLASH before it
Unescaped(s, i) == i = 1 \/ s[i - 1] # BSLASH \/ BackslashRun(s, i) % 2 = 0

\* position i holds a QUOTE that ends the string literal
ClosesString(s, i) == s[i] = QUOTE /\ Unescaped(s, i)

\* position i holds a BSLASH that escapes the lexeme after it
Escapes(s, i) == s[i] = BSLASH /\ Unescaped(s, i)

\* the string literal whose inside starts s and whose closing QUOTE is at
\* position close: the text with its escapes undone, when every escape is
\* one json accepts
StringUpTo(s, close) ==
    IF \A i \in 1..(close - 1) : Escapes(s, i) => s[i + 1] \in {QUOTE, BSLASH}
    THEN POk(JStr(Flatten([i \in 1..(close - 1) |->
                             IF Escapes(s, i) THEN <<>> ELSE <<s[i]>>])),
             SubSeq(s, close + 1, Len(s)))
    ELSE PFail

\* the inside of a JSON string up to its closing QUOTE, and what follows
ScanString(s) ==
    IF \E i \in 1..Len(s) : ClosesString(s, i)
    THEN StringUpTo(s, CHOOSE i \in 1..Len(s) :
                          /\ ClosesString(s, i)
                          /\ \A j \in 1..(i - 1) : ~ClosesString(s, j))
    ELSE PFail

NumLexemes == {"200", "500", "0"}
NumOf(lx) == IF lx = "200" THEN 200 ELSE IF lx = "500" THEN 500 ELSE 0

RECURSIVE ParseValue(_)
RECURSIVE ParseItems(_, _)
RECURSIVE ItemsAfter(_, _)
RECURSIVE ParseMembers(_, _)
RECURSIVE MemberAfterKey(_, _)
RECURSIVE MemberAfterValue(_, _, _)
\* one JSON value at the head of text s
ParseValue(s) ==
    IF s = <<>> THEN PFail
    ELSE IF Head(s) = QUOTE THEN ScanString(Tail(s))
    ELSE IF Head(s) \in NumLexemes THEN POk(JNum(NumOf(Head(s))), Tail(s))
    ELSE IF Head(s) = "["
         THEN IF Len(s) >= 2 /\ s[2] = "]"
              THEN POk(JList(<<>>), Tail(Tail(s)))
              ELSE ParseItems(Tail(s), <<>>)
    ELSE IF Head(s) = "{"
         THEN IF Len(s) >= 2 /\ s[2] = "}"
              THEN POk(JObj(<<>>), Tail(Tail(s)))
              ELSE ParseMembers(Tail(s), <<>>)
    ELSE PFail

\* the elements of an array, after those in acc
ParseItems(s, acc) == ItemsAfter(ParseValue(s), acc)

\* p is the parse of one element: then `]` or `,`
ItemsAfter(p, acc) ==
    IF ~p.ok \/ p.rest = <<>> THEN PFail
    ELSE IF Head(p.rest) = "]" THEN POk(JList(Append(acc, p.val)), Tail(p.rest))
    ELSE IF Head(p.rest) = "," THEN ParseItems(Tail(p.rest), Append(acc, p.val))
    ELSE PFail

\* the members of an object, after those in acc
ParseMembers(s, acc) ==
    IF s = <<>> \/ Head(s) # QUOTE THEN PFail
    ELSE MemberAfterKey(ScanString(Tail(s)), acc)

\* k is the parse of a member's key: then `:` and the value
MemberAfterKey(k, acc) ==
    IF ~k.ok \/ k.rest = <<>> \/ Head(k.rest) # ":" THEN PFail
    ELSE MemberAfterValue(k.val.s, ParseValue(Tail(k.rest)), acc)

\* p is the parse of the value of the member named key: then `}` or `,`
MemberAfterValue(key, p, acc) ==
    IF ~p.ok \/ p.rest = <<>> THEN PFail
    ELSE IF Head(p.rest) = "}"
         THEN POk(JObj(Append(acc, <<key, p.val>>)), Tail(p.rest))
    ELSE IF Head(p.rest) = ","
         THEN ParseMembers(Tail(p.rest), Append(acc, <<key, p.val>>))
    ELSE PFail

\* p is the parse of the whole text
WholeValue(p) ==
    IF p.ok /\ p.rest = <<>> THEN [ok |-> TRUE, val |-> p.val]
    ELSE [ok |-> FALSE, val |-> JNum(0)]

\* json.loads(text): a value, or JSONDecodeError when the text is not
\* exactly one JSON value
JsonLoads(text) == WholeValue(ParseValue(text))

\* dict operations on an "obj" value (a later member with the same key wins)
HasKey(obj, key) == \E i \in 1..Len(obj.members) : obj.members[i][1] = key

GetKey(obj, key) ==
    LET i == CHOOSE j \in 1..Len(obj.members) :
                 /\ obj.members[j][1] = key
                 /\ \A m \in (j+1)..Len(obj.members) : obj.members[m][1] # key
    IN obj.members[i][2]

SetKey(obj, key, v) ==
    IF HasKey(obj, key)
    THEN JObj([i \in 1..Len(obj.members) |->
                 IF obj.members[i][1] = key THEN <<key, v>> ELSE obj.members[i]])
    ELSE JObj(Append(obj.members, <<key, v>>))

\* whether text sub occurs in text s
Contains(s, sub) ==
    \E i \in 0..(Len(s) - Len(sub)) :
        \A j \in 1..Len(sub) : s[i + j] = sub[j]

(* ------------------------- Python values ------------------------------ *)

\* an exception: its class name and str(e)
Err(kind, msg) == [kind |-> kind, msg |-> msg]
NoErr == Err("none", <<>>)

\* the result of evaluating an expression: a value, or a raised exception
Ret(v) == [raised |-> FALSE, val |-> v, err |-> NoErr]
Raise(e) == [raised |-> TRUE, val |-> JNum(0), err |-> e]

\* str(KeyError(k)) is the repr of the key
KeyError(k) == Err("KeyError", <<"'">> \o k \o <<"'">>)

\* the inside of str(list of str): 'x', 'y'
ReprItems(items) ==
    Flatten([i \in 1..Len(items) |->
               (IF i > 1 THEN <<", ">> ELSE <<>>)
               \o <<"'">> \o items[i].s \o <<"'">>])

\* str(v), as str() and f-strings render a value
TextOf(v) ==
    CASE v.t = "str" -> v.s
      [] v.t = "num" -> IntText(v.n)
      [] v.t = "float" -> v.repr
      [] v.t = "list" -> <<"[">> \o ReprItems(v.items) \o <<"]">>
      [] v.t = "obj" -> DumpValue(v)

\* type(v).__name__
TypeName(v) ==
    CASE v.t = "str" -> "str"
      [] v.t = "num" -> "int"
      [] v.t = "float" -> "float"
      [] v.t = "list" -> "list"
      [] v.t = "obj" -> "dict"

\* v[key] for a str key
Index(v, key) ==
    IF v.t = "obj"
    THEN IF HasKey(v, key) THEN Ret(GetKey(v, key)) ELSE Raise(KeyError(key))
    ELSE Raise(Err("TypeError", <<"indices must be integers">>))

\* v[0]
IndexZero(v) ==
    CASE v.t = "list" ->
           IF v.items # <<>> THEN Ret(v.items[1])
           ELSE Raise(Err("IndexError", <<"list index out of range">>))
      [] v.t = "str" ->
           IF v.s # <<>> THEN Ret(JStr(<<v.s[1]>>))
           ELSE Raise(Err("IndexError", <<"string index out of range">>))
      [] v.t = "obj" -> Raise(Err("KeyError", <<"0">>))
      [] OTHER -> Raise(Err("TypeError", <<"object is not subscriptable">>))

\* the items a for loop over v visits: the elements of a list, the
\* characters of a str
Iterate(v) ==
    CASE v.t = "list" -> [i \in 1..Len(v.items) |-> TextOf(v.items[i])]
      [] v.t = "str" -> [i \in 1..Len(v.s) |-> <<v.s[i]>>]
      [] OTHER -> <<>>

\* ",".join(f'"{x}"' for x in items)
JoinQuoted(items) ==
    Flatten([i \in 1..Len(items) |->
               Comma(i) \o <<QUOTE>> \o items[i] \o <<QUOTE>>])

(* ------------------------ Parameter encoder --------------------------- *)

STOP_SEQUENCES == <<"stop_sequences">>

\* the stop argument of a call: None, or a list of strings
StopNone == [none |-> TRUE, items |-> <<>>]
StopList(items) == [none |-> FALSE, items |-> items]
\* Python truth of the stop argument (None and [] are false)
StopTruthy(stop) == ~stop.none /\ stop.items # <<>>

\* model_kwargs: None, or a dict
KwNone == [none |-> TRUE, d |-> JObj(<<>>)]
KwDict(members) == [none |-> FALSE, d |-> JObj(members)]

\* `self.model_kwargs or {}` is the facade's own dict object unless
\* model_kwargs is None or empty
Aliased(kwargs) == ~kwargs.none /\ kwargs.d.members # <<>>

\* `stop or _stop_sequences`
StopOrDefault(stop, dflt) ==
    IF StopTruthy(stop)
    THEN JList([i \in 1..Len(stop.items) |-> JStr(stop.items[i])])
    ELSE dflt

\* {k: {"type": type(v).__name__, "value": str(v)} for k, v in items()}
TuningDict(mk) ==
    JObj([i \in 1..Len(mk.members) |->
            <<mk.members[i][1],
              JObj(<< <<<<"type">>, JStr(<<TypeName(mk.members[i][2])>>)>>,
                      <<<<"value">>, JStr(TextOf(mk.members[i][2]))>> >>)>>])

\* Sambaverse._get_tuning_params: the JSON text returned, and model_kwargs
\* as the call leaves it
SVGetTuningParams(kwargs, stop) ==
    LET mk == IF Aliased(kwargs) THEN kwargs.d ELSE JObj(<<>>)
        dflt == IF HasKey(mk, STOP_SEQUENCES)
                THEN GetKey(mk, STOP_SEQUENCES) ELSE JList(<<>>)
        chosen == StopOrDefault(stop, dflt)
        mk2 == SetKey(mk, STOP_SEQUENCES, JStr(JoinQuoted(Iterate(chosen))))
    IN [text |-> DumpValue(TuningDict(mk2)),
        kwargs |-> IF Aliased(kwargs) THEN [none |-> FALSE, d |-> mk2] ELSE kwargs]

\* SambaStudio._get_tuning_params: the stop sequences chosen are not put
\* into the dict (the assignment is commented out)
SSGetTuningParams(kwargs, stop) ==
    LET mk == IF Aliased(kwargs) THEN kwargs.d ELSE JObj(<<>>)
    IN [text |-> DumpValue(TuningDict(mk)), kwargs |-> kwargs]

GetTuningParams(v, kwargs, stop) ==
    IF v = "A" THEN SVGetTuningParams(kwargs, stop)
    ELSE SSGetTuningParams(kwargs, stop)

\* the handlers' `if params: ... json.loads(params)`: the params member of
\* the request body (an empty text sends no params)
RequestParams(text) ==
    IF text = <<>> THEN Ret(JObj(<<>>))
    ELSE LET p == JsonLoads(text) IN
         IF p.ok THEN Ret(p.val)
         ELSE Raise(Err("JSONDecodeError", <<"Expecting value">>))

(* ------------------------ Response decoders --------------------------- *)

NEWLINE == "\n"

RECURSIVE StripLeft(_)
\* str.strip() removes the white space at both ends (here: NEWLINE lexemes)
StripLeft(s) ==
    IF s # <<>> /\ Head(s) = NEWLINE THEN StripLeft(Tail(s)) ELSE s

RECURSIVE StripRight(_)
StripRight(s) ==
    IF s # <<>> /\ s[Len(s)] = NEWLINE
    THEN StripRight(SubSeq(s, 1, Len(s) - 1)) ELSE s

Strip(s) == StripRight(StripLeft(s))

\* text.split("\n")[-1]: what follows the last NEWLINE
LastLine(s) ==
    LET nl == {i \in 1..Len(s) : s[i] = NEWLINE} IN
    IF nl = {} THEN s
    ELSE LET last == CHOOSE i \in nl : \A j \in nl : j <= i IN
         SubSeq(s, last + 1, Len(s))

RECURSIVE Without(_, _)
\* the text with every occurrence of lexeme lx removed
Without(s, lx) ==
    IF s = <<>> THEN <<>>
    ELSE (IF Head(s) = lx THEN <<>> ELSE <<Head(s)>>) \o Without(Tail(s), lx)

\* "".join(line.split("data: ")[1:]): what follows the first `data: `,
\* with every later `data: ` removed as well; empty when there is none
AfterDataPrefix(line) ==
    LET at == {i \in 1..Len(line) : line[i] = DATA_PREFIX} IN
    IF at = {} THEN <<>>
    ELSE LET first == CHOOSE i \in at : \A j \in at : i <= j IN
         Without(SubSeq(line, first + 1, Len(line)), DATA_PREFIX)

STATUS_CODE == <<"status_code">>
DETAIL == <<"detail">>
DATA == <<"data">>
COMPLETION == <<"completion">>
JSON_ERROR == <<"Expecting value">>

\* the closing lines of both _process_response: `if "status_code" not in
\* result: result["status_code"] = response.status_code; return result`
WithStatusCode(result, status) ==
    CASE result.t = "obj" ->
           IF HasKey(result, STATUS_CODE) THEN Ret(result)
           ELSE Ret(SetKey(result, STATUS_CODE, JNum(status)))
      [] result.t = "list" ->
           IF \E i \in 1..Len(result.items) :
                 /\ result.items[i].t = "str"
                 /\ result.items[i].s = STATUS_CODE
           THEN Ret(result)
           ELSE Raise(Err("TypeError", <<"list indices must be integers">>))
      [] result.t = "str" ->
           IF Contains(result.s, STATUS_CODE) THEN Ret(result)
           ELSE Raise(Err("TypeError", <<"does not support item assignment">>))
      [] OTHER -> Raise(Err("TypeError", <<"is not iterable">>))

\* `result = {"data": json.loads(...)}`, or, when that raised,
\* `result["detail"] = str(e)` on the empty dict
SVResult(parsed) ==
    IF parsed.ok THEN JObj(<< <<DATA, parsed.val>> >>)
    ELSE JObj(<< <<DETAIL, JStr(JSON_ERROR)>> >>)

\* SVEndpointHandler._process_response
SVProcessResponse(response) ==
    WithStatusCode(
        SVResult(JsonLoads(AfterDataPrefix(LastLine(Strip(response.text))))),
        response.status_code)

\* `result = response.json()`, or, when that raised,
\* `result["detail"] = str(e)` on the empty dict
SSResult(parsed) ==
    IF parsed.ok THEN parsed.val
    ELSE JObj(<< <<DETAIL, JStr(JSON_ERROR)>> >>)

\* SSEndpointHandler._process_response
SSProcessResponse(response) ==
    WithStatusCode(SSResult(JsonLoads(response.text)), response.status_code)

\* `response["status_code"] != 200`
NotOk(v) == ~(v.t = "num" /\ v.n = 200)

FAILED_PREFIX == <<"Sambanova /complete call failed with status code ">>

\* Sambaverse's `raise ValueError(...)`, once response["details"] and
\* response["message"] were read (either may raise KeyError)
SVFailure(sc, details, message) ==
    IF details.raised THEN details
    ELSE IF message.raised THEN message
    ELSE Raise(Err("ValueError",
             FAILED_PREFIX \o TextOf(sc) \o <<". Details: ">>
             \o TextOf(details.val) \o TextOf(sc)
             \o <<". Message: ">> \o TextOf(message.val)))

\* `return response["data"]["completion"]`, data being response["data"]
SVCompletion(data) ==
    IF data.raised THEN data ELSE Index(data.val, COMPLETION)

\* Sambaverse._handle_nlp_predict from `if response["status_code"] != 200`
SVCheckStatus(response, sc) ==
    IF sc.raised THEN sc
    ELSE IF NotOk(sc.val)
    THEN SVFailure(sc.val, Index(response, <<"details">>),
                   Index(response, <<"message">>))
    ELSE SVCompletion(Index(response, DATA))

\* Sambaverse._handle_nlp_predict, given what sdk.nlp_predict returned
SVHandlePredict(response) ==
    SVCheckStatus(response, Index(response, STATUS_CODE))

\* SambaStudio's `raise ValueError(...)`, once response["detail"] was read
SSFailure(sc, detail) ==
    IF detail.raised THEN detail
    ELSE Raise(Err("ValueError",
             FAILED_PREFIX \o TextOf(sc) \o <<". Details: ">>
             \o TextOf(detail.val)))

\* `[...]["completion"]`, first being response["data"][0]
SSFirstCompletion(first) ==
    IF first.raised THEN first ELSE Index(first.val, COMPLETION)

\* `return response["data"][0]["completion"]`, data being response["data"]
SSCompletion(data) ==
    IF data.raised THEN data ELSE SSFirstCompletion(IndexZero(data.val))

\* SambaStudio._handle_nlp_predict from `if response["status_code"] != 200`
SSCheckStatus(response, sc) ==
    IF sc.raised THEN sc
    ELSE IF NotOk(sc.val) THEN SSFailure(sc.val, Index(response, DETAIL))
    ELSE SSCompletion(Index(response, DATA))

\* SambaStudio._handle_nlp_predict, given what sdk.nlp_predict returned
SSHandlePredict(response) ==
    SSCheckStatus(response, Index(response, STATUS_CODE))

ENDPOINT_ERROR == <<"Error raised by the inference endpoint: ">>

\* a wrapper that drops the cause's message
WrapErrorNoCause(e) == Err("ValueError", <<"Error raised by the inference endpoint: ">>)

\* `except Exception as e: raise ValueError(f"Error raised by the inference
\* endpoint: {e}") from e`
WrapError(e) == Err("ValueError", ENDPOINT_ERROR \o e.msg)

\* what http_session.post raises when the server cannot be reached, and
\* what reading the stream raises when the connection breaks
CONNECTION_REFUSED == Err("ConnectionError", <<"Connection refused">>)
CONNECTION_BROKEN == Err("ChunkedEncodingError", <<"Connection broken">>)

\* nlp_predict from its post on: the transport's exception, or
\* _process_response of the response
ProcessReply(v, rp) ==
    IF rp.failed THEN Raise(CONNECTION_REFUSED)
    ELSE IF v = "A" THEN SVProcessResponse(rp) ELSE SSProcessResponse(rp)

\* _handle_nlp_predict, r being how sdk.nlp_predict ended
HandlePredict(v, r) ==
    IF r.raised THEN r
    ELSE IF v = "A" THEN SVHandlePredict(r.val) ELSE SSHandlePredict(r.val)

\* _call's try/except around r, how its body ended
WrapRaised(r) == IF r.raised THEN Raise(WrapError(r.err)) ELSE r

\* _call with streaming off, from the HTTP reply to how the call ends
CallBatchOutcome(v, rp) == WrapRaised(HandlePredict(v, ProcessReply(v, rp)))

(* ------------------------ Streaming decoder --------------------------- *)

ERROR_EVENT == <<"error_event">>

\* one server-sent event as sseclient hands it over
Event(name, data) == [event |-> name, data |-> data]

\* a decoder that leaves the data of an error-marked event out of its chunk
ChunkOfNoErrorData(e) ==
    [text |-> DumpValue(JObj(<< <<<<"event">>, JStr(e.event)>>,
                                <<<<"data">>,
                                  JStr(IF e.event = <<"error_event">>
                                       THEN <<>> ELSE e.data)>> >>))]

\* `text = json.dumps({"event": event.event, "data": event.data})`,
\* `chunk = GenerationChunk(text=text)`
ChunkOf(e) ==
    [text |-> DumpValue(JObj(<< <<<<"event">>, JStr(e.event)>>,
                                <<<<"data">>, JStr(e.data)>> >>))]

\* `if event.event == "error_event": close_conn = True`
CloseConnAfter(close_conn, e) == close_conn \/ e.event = ERROR_EVENT

\* a decoder that never calls client.close()
ConnAfterLoopNoClose(close_conn) == "released"

\* after the loop over client.events(): `if close_conn: client.close()`.
\* Without it the connection, read to its end, is left to the transport,
\* which returns a drained connection to its pool.
ConnAfterLoop(close_conn) == IF close_conn THEN "closed" ELSE "released"

\* `completion = chunk.text`: only the last chunk is kept
AccumulateLastOnly(completion, chunk) == chunk.text

\* `completion += chunk.text` in _handle_stream_request
Accumulate(completion, chunk) == completion \o chunk.text

\* a _stream that takes the streaming branch whatever the flag says
StreamsAlways(flag) == TRUE

\* `if self.streaming:` in _stream
Streams(flag) == flag

\* one step a stream takes that its surroundings see
Effect(op, text) == [op |-> op, text |-> text]

\* a loop body that yields the chunk before it notifies the run manager
YieldThenNotify(run_manager, chunk) ==
    IF run_manager
    THEN <<Effect("yield", chunk.text), Effect("token", chunk.text)>>
    ELSE <<Effect("yield", chunk.text)>>

\* the body of _stream's loop: `if run_manager:
\* run_manager.on_llm_new_token(chunk.text)`, then `yield chunk`
StreamLoopBody(run_manager, chunk) ==
    IF run_manager
    THEN <<Effect("token", chunk.text), Effect("yield", chunk.text)>>
    ELSE <<Effect("yield", chunk.text)>>

\* a handler that posts again after its post
PostedTwice(n) == n + 2

\* `response = self.http_session.post(...)`: the handler's one post
Posted(n) == n + 1

(* ------------------------------ inputs -------------------------------- *)

RECURSIVE SeqsUpTo(_, _)
\* the sequences over S of length at most n
SeqsUpTo(S, n) ==
    IF n = 0 THEN {<<>>}
    ELSE LET shorter == SeqsUpTo(S, n - 1) IN
         shorter \cup {Append(q, c) : q \in shorter, c \in S}

\* completion strings: plain characters, a quote, and the text `data: `
Strs == SeqsUpTo({"a", QUOTE, DATA_PREFIX}, MaxStrLen)

CompletionObj(X) == JObj(<< <<COMPLETION, JStr(X)>> >>)
\* Variant A's success line, `data: {"completion": X}`
CompletionLine(X) == <<DATA_PREFIX>> \o DumpValue(CompletionObj(X))
\* Variant B's success body, {"data": [{"completion": X}]}
CompletionBody(X) == DumpValue(JObj(<< <<DATA, JList(<<CompletionObj(X)>>)>> >>))
ErrorBody == DumpValue(JObj(<< <<DETAIL, JStr(<<"boom">>)>> >>))

Bodies ==
    {CompletionLine(X) : X \in Strs}
    \cup {<<"a", NEWLINE>> \o CompletionLine(X) : X \in Strs}
    \cup {CompletionBody(X) : X \in Strs}
    \cup { <<>>, <<"a">>, CompletionLine(<<"a">>) \o <<NEWLINE>>, ErrorBody, <<DATA_PREFIX>> \o ErrorBody,
           <<"[", "]">>, <<DATA_PREFIX, "[", "]">>, <<"200">>,
           DumpValue(JObj(<<>>)),
           DumpValue(JObj(<< <<DATA, JList(<<>>)>> >>)),
           DumpValue(JObj(<< <<DATA, JList(<<CompletionObj(<<"a">>)>>)>>,
                             <<STATUS_CODE, JNum(500)>> >>)),
           DumpValue(JObj(<< <<DETAIL, JStr(<<"boom">>)>>,
                             <<STATUS_CODE, JNum(200)>> >>)) }

\* what http_session.post gives a batch call: a response, or an exception
NoReply == [failed |-> TRUE, status_code |-> 0, text |-> <<>>]
Replies ==
    {NoReply} \cup
    {[failed |-> FALSE, status_code |-> st, text |-> b] :
        st \in {200, 500}, b \in Bodies}

Events ==
    { Event(<<"message">>, <<"x">>), Event(ERROR_EVENT, <<"y">>) }

Stops ==
    { StopNone, StopList(<< <<"a">> >>), StopList(<< <<"a">>, <<"b">> >>) }

Configs ==
    { KwNone, KwDict(<<>>),
      KwDict(<< <<<<"temperature">>, JFloat(<<"0.7">>)>> >>),
      KwDict(<< <<<<"temperature">>, JFloat(<<"0.7">>)>>,
                <<STOP_SEQUENCES, JList(<<JStr(<<"x">>), JStr(<<"y">>)>>)>> >>) }

(* --------------------------- state machine ---------------------------- *)

VARIABLES
    variant,        \* "A" Sambaverse, "B" SambaStudio
    streaming,      \* the facade's streaming flag
    cfg0,           \* model_kwargs as given to the constructor
    model_kwargs,   \* the facade's model_kwargs field
    calls,          \* calls made on the facade so far
    pc,             \* "idle", "created", "reading", "yielded", "done"
    kind,           \* "none", "call" (_call) or "stream" (_stream)
    stop,           \* the call's stop argument
    encoded,        \* the call ran _get_tuning_params
    params,         \* the parameter set the call encoded (as the handler parses it)
    requests,       \* http_session.post calls of this call
    reply,          \* the batch call's HTTP reply
    events,         \* the events client.events() has produced
    delivered,      \* the chunks yielded to the consumer of _stream
    completion,     \* _handle_stream_request's completion
    close_conn,     \* the decoder's close_conn
    connection,     \* "none", "open", "closed" (client.close()), "released"
    cause,          \* the exception that reached the facade's `except Exception`
    outcome,        \* how the call ended
    run_manager,    \* the call was given a run_manager (a notification sink)
    effects         \* the stream's steps in order: events read, tokens
                    \* notified, chunks yielded, chunks appended by _call

vars == <<variant, streaming, cfg0, model_kwargs, calls, pc, kind, stop,
          encoded, params, requests, reply, events, delivered, completion,
          close_conn, connection, cause, outcome, run_manager, effects>>

facade == <<variant, streaming, cfg0>>

NoValue == JNum(0)
Pending == [type |-> "none", val |-> NoValue, err |-> NoErr]
Returned(v) == [type |-> "returned", val |-> v, err |-> NoErr]
Raised(e) == [type |-> "raised", val |-> NoValue, err |-> e]
Exhausted == [type |-> "exhausted", val |-> NoValue, err |-> NoErr]
Abandoned == [type |-> "abandoned", val |-> NoValue, err |-> NoErr]
\* a call ends as its body does: it returns the value or raises the exception
OutcomeOf(r) == IF r.raised THEN Raised(r.err) ELSE Returned(r.val)

Init ==
    /\ variant \in {"A", "B"}
    /\ streaming \in BOOLEAN
    /\ cfg0 \in Configs
    /\ model_kwargs = cfg0
    /\ calls = 0
    /\ pc = "idle"
    /\ kind = "none"
    /\ stop = StopNone
    /\ encoded = FALSE
    /\ params = JObj(<<>>)
    /\ requests = 0
    /\ reply = NoReply
    /\ events = <<>>
    /\ delivered = <<>>
    /\ completion = <<>>
    /\ close_conn = FALSE
    /\ connection = "none"
    /\ cause = NoErr
    /\ outcome = Pending
    /\ run_manager = FALSE
    /\ effects = <<>>

\* a call starts on an idle facade
NewCall(k, s) ==
    /\ pc = "idle"
    /\ calls < MaxCalls
    /\ calls' = calls + 1
    /\ kind' = k
    /\ stop' = s
    /\ UNCHANGED <<facade, events, delivered, completion, close_conn,
                   connection, effects>>

\* SambaStudio._call: `if stop is not None: raise Exception(...)`
StopRefused(v, s) == v = "B" /\ ~s.none

\* the exception a generator's `except Exception` turns e into; _call
\* wraps what _stream raised once more
StreamError(k, e) == IF k = "call" THEN WrapError(WrapError(e)) ELSE WrapError(e)

\* _call(prompt, stop) up to its first network activity: SambaStudio
\* refuses a stop argument; with streaming on _handle_stream_request starts,
\* and goes on in StreamStart, ReadEvent, Consume, EndOfStream
Call(s, rm) ==
    /\ NewCall("call", s)
    /\ run_manager' = rm
    /\ StopRefused(variant, s) \/ streaming
    /\ IF StopRefused(variant, s)
       THEN /\ outcome' = Raised(Err("Exception", <<"stop not implemented">>))
            /\ pc' = "done"
       ELSE /\ outcome' = Pending
            /\ pc' = "created"
    /\ UNCHANGED <<model_kwargs, encoded, params, requests, reply, cause>>

\* _call(prompt, stop) with streaming off, the whole call:
\* _handle_completion_requests encodes the parameters, nlp_predict posts
\* and decodes reply rp, _handle_nlp_predict extracts the completion; the
\* batch path makes no use of run_manager, given or not
CallBatch(s, rp) ==
    /\ NewCall("call", s)
    /\ ~StopRefused(variant, s) /\ ~streaming
    /\ model_kwargs' = GetTuningParams(variant, model_kwargs, s).kwargs
    /\ encoded' = TRUE
    /\ params' = RequestParams(GetTuningParams(variant, model_kwargs, s).text).val
    /\ requests' = Posted(requests)
    /\ reply' = rp
    /\ cause' = HandlePredict(variant, ProcessReply(variant, rp)).err
    /\ outcome' = OutcomeOf(CallBatchOutcome(variant, rp))
    /\ pc' = "done"
    /\ run_manager' \in BOOLEAN

\* _stream(prompt, stop): calling a generator function runs none of it
Stream(s, rm) ==
    /\ NewCall("stream", s)
    /\ run_manager' = rm
    /\ pc' = "created"
    /\ outcome' = Pending
    /\ UNCHANGED <<model_kwargs, encoded, params, requests, reply, cause>>

\* the first next() on _stream: _get_tuning_params, then, with streaming
\* on, nlp_predict_stream up to its post (which may raise)
StreamStart(posted) ==
    /\ pc = "created"
    /\ model_kwargs' = GetTuningParams(variant, model_kwargs, stop).kwargs
    /\ encoded' = TRUE
    /\ params' = RequestParams(GetTuningParams(variant, model_kwargs, stop).text).val
    /\ IF ~Streams(streaming)
       THEN /\ requests' = requests
            /\ connection' = connection
            /\ pc' = "done"
            /\ cause' = cause
            /\ outcome' = IF kind = "call" THEN Returned(JStr(completion))
                          ELSE Exhausted
       ELSE /\ requests' = Posted(requests)
            /\ IF posted
               THEN /\ connection' = "open"
                    /\ pc' = "reading"
                    /\ cause' = cause
                    /\ outcome' = outcome
               ELSE /\ connection' = connection
                    /\ pc' = "done"
                    /\ cause' = CONNECTION_REFUSED
                    /\ outcome' = Raised(StreamError(kind, CONNECTION_REFUSED))
    /\ UNCHANGED <<facade, calls, kind, stop, reply, events, delivered,
                   completion, close_conn, run_manager, effects>>

\* one turn of `for event in client.events()`: the event sets close_conn,
\* becomes a chunk, and the chunk is yielded up to the consumer
ReadEvent(e) ==
    /\ pc = "reading"
    /\ Len(events) < MaxEvents
    /\ events' = Append(events, e)
    /\ close_conn' = CloseConnAfter(close_conn, e)
    /\ delivered' = Append(delivered, ChunkOf(e))
    /\ effects' = effects \o <<Effect("read", e.data)>>
                          \o StreamLoopBody(run_manager, ChunkOf(e))
    /\ pc' = "yielded"
    /\ UNCHANGED <<facade, model_kwargs, calls, kind, stop, encoded, params,
                   requests, reply, completion, connection, cause, outcome,
                   run_manager>>

\* the consumer takes the chunk and asks for the next one; the consumer of
\* _handle_stream_request adds the chunk's text to completion first
Consume ==
    /\ pc = "yielded"
    /\ completion' = IF kind = "call"
                     THEN Accumulate(completion, delivered[Len(delivered)])
                     ELSE completion
    /\ effects' = IF kind = "call"
                  THEN Append(effects,
                              Effect("append", delivered[Len(delivered)].text))
                  ELSE effects
    /\ pc' = "reading"
    /\ UNCHANGED <<facade, model_kwargs, calls, kind, stop, encoded, params,
                   requests, reply, events, delivered, close_conn, connection,
                   cause, outcome, run_manager>>

\* the server closes the stream: the loop ends, `if close_conn:
\* client.close()`, the generators return, _call returns completion
EndOfStream ==
    /\ pc = "reading"
    /\ connection' = ConnAfterLoop(close_conn)
    /\ outcome' = IF kind = "call" THEN Returned(JStr(completion)) ELSE Exhausted
    /\ pc' = "done"
    /\ UNCHANGED <<facade, model_kwargs, calls, kind, stop, encoded, params,
                   requests, reply, events, delivered, completion, close_conn,
                   cause, run_manager, effects>>

\* the transport raises while the next event is read: the exception leaves
\* the decoder's loop (its last lines do not run) and is wrapped by _stream
StreamFailure ==
    /\ pc = "reading"
    /\ cause' = CONNECTION_BROKEN
    /\ outcome' = Raised(StreamError(kind, CONNECTION_BROKEN))
    /\ pc' = "done"
    /\ UNCHANGED <<facade, model_kwargs, calls, kind, stop, encoded, params,
                   requests, reply, events, delivered, completion, close_conn,
                   connection, run_manager, effects>>

\* the consumer of _stream stops before the sequence is exhausted: the
\* generators are left at their yield (or closed there), so the lines after
\* the decoder's loop never run; an open connection is then whatever the
\* transport makes of it
Abandon(fate) ==
    /\ kind = "stream"
    /\ pc \in {"created", "yielded"}
    /\ connection' = IF connection = "open" THEN fate ELSE connection
    /\ outcome' = Abandoned
    /\ pc' = "done"
    /\ UNCHANGED <<facade, model_kwargs, calls, kind, stop, encoded, params,
                   requests, reply, events, delivered, completion, close_conn,
                   cause, run_manager, effects>>

\* the call is over and its caller is done with what it got: the call's
\* locals (stop, the encoded parameters, the response, the chunks) are gone,
\* the facade and its fields stay
Forget ==
    /\ pc = "done"
    /\ calls < MaxCalls
    /\ pc' = "idle"
    /\ kind' = "none"
    /\ stop' = StopNone
    /\ encoded' = FALSE
    /\ params' = JObj(<<>>)
    /\ requests' = 0
    /\ reply' = NoReply
    /\ events' = <<>>
    /\ delivered' = <<>>
    /\ completion' = <<>>
    /\ close_conn' = FALSE
    /\ connection' = "none"
    /\ cause' = NoErr
    /\ outcome' = Pending
    /\ run_manager' = FALSE
    /\ effects' = <<>>
    /\ UNCHANGED <<facade, model_kwargs, calls>>

Next ==
    \/ \E s \in Stops, rm \in BOOLEAN : Call(s, rm)
    \/ \E s \in Stops, rp \in Replies : CallBatch(s, rp)
    \/ \E s \in Stops, rm \in BOOLEAN : Stream(s, rm)
    \/ \E posted \in BOOLEAN : StreamStart(posted)
    \/ \E e \in Events : ReadEvent(e)
    \/ Consume
    \/ EndOfStream
    \/ StreamFailure
    \/ \E fate \in {"open", "released"} : Abandon(fate)
    \/ Forget

Spec == Init /\ [][Next]_vars

(* ------------------------------ claims -------------------------------- *)

\* the parsed chunk text p is an object whose event and data are e's
Carries(p, e) ==
    /\ p.ok
    /\ p.val.t = "obj"
    /\ Len(p.val.members) = 2
    /\ HasKey(p.val, <<"event">>) /\ GetKey(p.val, <<"event">>) = JStr(e.event)
    /\ HasKey(p.val, <<"data">>) /\ GetKey(p.val, <<"data">>) = JStr(e.data)

HasErrorEvent(es) == \E i \in 1..Len(es) : es[i].event = ERROR_EVENT

\* C1: for both variants the streaming decoder yields exactly one fragment
\* per server-sent event, in arrival order, each carrying that event's name
\* and data; an error-marked event is yielded like any other and neither
\* raises nor ends the sequence (the call is still running after its yield,
\* and a call that raised after reading events did so because the transport
\* broke, not because of an event).
C1_OneFragmentPerEvent ==
    /\ Len(delivered) = Len(events)
    /\ \A i \in 1..Len(delivered) :
          Carries(JsonLoads(delivered[i].text), events[i])
    /\ (pc = "yielded" => outcome = Pending)
    /\ (outcome.type = "raised" /\ events # <<>> => cause = CONNECTION_BROKEN)

\* three ordinary events then an error-marked one: four fragments, and the
\* sequence ends only when the server closes the stream
C1_Witness ==
    /\ kind = "stream"
    /\ outcome = Exhausted
    /\ Len(events) = 4
    /\ \A i \in 1..3 : events[i].event # ERROR_EVENT
    /\ events[4].event = ERROR_EVENT
    /\ Len(delivered) = 4

\* C2: when a streamed response holds an error-marked event, the connection
\* is closed once the stream is exhausted, after the last fragment was
\* delivered; the decoder closes it at no other point (never while a call
\* is running, never without an error-marked event).
C2_ClosedAfterLastFragment ==
    /\ (connection = "closed" =>
          /\ pc = "done"
          /\ HasErrorEvent(events)
          /\ Len(delivered) = Len(events))
    /\ (outcome.type \in {"exhausted", "returned"} /\ HasErrorEvent(events)
          => connection = "closed")

C2_Witness ==
    /\ kind = "stream"
    /\ outcome = Exhausted
    /\ Len(delivered) = 4
    /\ events[4].event = ERROR_EVENT
    /\ connection = "closed"

\* the local usage error SambaStudio raises for a stop argument
IsUsageError(o) ==
    o.type = "raised" /\ o.err = Err("Exception", <<"stop not implemented">>)

\* C3: a call on a Variant B facade that supplies stop words raises a local
\* usage error and makes no HTTP request, with streaming on or off, for
\* _call and for _stream alike (a _stream nobody pulled from has not run).
C3_StopWordsRefused ==
    (variant = "B" /\ kind # "none" /\ StopTruthy(stop)) =>
        /\ requests = 0
        /\ (outcome.type \notin {"none", "abandoned"} => IsUsageError(outcome))

\* the normalized result r carries a detail text that msg does not show
DetailMissing(r, msg) ==
    /\ ~r.raised
    /\ r.val.t = "obj"
    /\ HasKey(r.val, DETAIL)
    /\ ~Contains(msg, TextOf(GetKey(r.val, DETAIL)))

\* a batch _call that got HTTP reply rp
BatchDone == kind = "call" /\ pc = "done" /\ ~streaming /\ requests = 1

\* C4: for both variants, when the batch response's HTTP status is not 200,
\* generate raises an error whose message contains the status code and the
\* detail text the normalized result carried.
C4_FailureShowsStatusAndDetail ==
    (BatchDone /\ ~reply.failed /\ reply.status_code # 200) =>
        /\ outcome.type = "raised"
        /\ Contains(outcome.err.msg, IntText(reply.status_code))
        /\ ~DetailMissing(ProcessReply(variant, reply), outcome.err.msg)

\* the parameter set the same call sends when it is the first call on a
\* freshly constructed facade with the same configuration
FreshParams == RequestParams(GetTuningParams(variant, cfg0, stop).text).val

\* C5: whatever calls came before, the parameters a call encodes are those
\* the same call encodes on a fresh facade with the same configuration.
C5_ParamsAsOnFreshFacade == encoded => params = FreshParams

RECURSIVE ConcatTexts(_)
\* the texts of chunks, joined in order
ConcatTexts(chunks) ==
    IF chunks = <<>> THEN <<>>
    ELSE Head(chunks).text \o ConcatTexts(Tail(chunks))

\* C6: with streaming on, what generate returns is the in-order
\* concatenation of the texts of the fragments its _stream yielded, one per
\* event of the server's sequence (the empty string when there is none).
C6_GenerateIsConcatenation ==
    (kind = "call" /\ streaming /\ outcome.type = "returned") =>
        /\ outcome.val = JStr(ConcatTexts(delivered))
        /\ Len(delivered) = Len(events)
        /\ \A i \in 1..Len(delivered) :
              Carries(JsonLoads(delivered[i].text), events[i])

C6_Witness ==
    /\ kind = "call" /\ streaming /\ outcome.type = "returned"
    /\ Len(events) = 3
    /\ events[1] # events[2] /\ events[2] # events[3]
    /\ outcome.val.s # <<>>

\* C7: once the consumer has abandoned a stream's fragment sequence, the
\* connection the call opened is no longer open.
C7_AbandonReleasesConnection ==
    outcome.type = "abandoned" => connection # "open"

\* the stop_sequences entry of parameter set ps is built from stop words ws
StopEntryIs(ps, ws) ==
    /\ HasKey(ps, STOP_SEQUENCES)
    /\ HasKey(GetKey(ps, STOP_SEQUENCES), <<"value">>)
    /\ GetKey(GetKey(ps, STOP_SEQUENCES), <<"value">>) = JStr(JoinQuoted(ws))

\* C8: whenever a call supplies stop words and reaches parameter encoding,
\* the stop_sequences entry it emits is built from the call's stop words only.
C8_CallStopWordsReplaceDefaults ==
    (encoded /\ StopTruthy(stop)) => StopEntryIs(params, stop.items)

\* the batch reply's body has the shape the variant's success response has
\* for completion X
SuccessBodyFor(v, text, X) ==
    IF v = "A"
    THEN text \in {CompletionLine(X), <<"a", NEWLINE>> \o CompletionLine(X)}
    ELSE text = CompletionBody(X)

\* C9: an HTTP-200 batch response of the variant's success shape for
\* completion string X makes generate return exactly X.
C9_CompletionUnchanged ==
    \A X \in Strs :
        (BatchDone /\ ~reply.failed /\ reply.status_code = 200
            /\ SuccessBodyFor(variant, reply.text, X))
        => outcome = Returned(JStr(X))

StartsWith(s, prefix) ==
    Len(s) >= Len(prefix) /\ SubSeq(s, 1, Len(prefix)) = prefix

\* bodies that are no JSON, with or without the `data: ` framing
UnparsableBodies == {<<>>, <<"a">>}

\* C10: an exception of the transport or decoding layers during generate
\* (the post failing, the stream breaking, a body that is no JSON, a payload
\* without the completion) ends the call with the uniform ValueError
\* "Error raised by the inference endpoint: ..." whose message contains the
\* cause's message; generate returns a value only when nothing was raised.
C10_FailuresWrapped ==
    (kind = "call" /\ pc = "done" /\ ~StopRefused(variant, stop)) =>
        /\ (cause # NoErr =>
              /\ outcome.type = "raised"
              /\ outcome.err.kind = "ValueError"
              /\ StartsWith(outcome.err.msg, ENDPOINT_ERROR)
              /\ Contains(outcome.err.msg, cause.msg))
        /\ (outcome.type = "returned" <=> cause = NoErr)
        /\ (requests = 1 /\ ~streaming /\ reply.failed => cause = CONNECTION_REFUSED)
        /\ (requests = 1 /\ ~streaming /\ ~reply.failed
              /\ reply.text \in UnparsableBodies => cause # NoErr)

\* an HTTP-200 reply whose body is no JSON: generate raises the uniform error
C10_Witness ==
    /\ BatchDone /\ ~reply.failed /\ reply.status_code = 200
    /\ reply.text = <<"a">>
    /\ outcome.type = "raised"
    /\ StartsWith(outcome.err.msg, ENDPOINT_ERROR)
    /\ cause.kind = "KeyError"

\* the normalized result r exists and its status_code is the HTTP status
StatusIsHttp(r, status) ==
    /\ ~r.raised
    /\ r.val.t = "obj"
    /\ HasKey(r.val, STATUS_CODE)
    /\ GetKey(r.val, STATUS_CODE) = JNum(status)

\* C11: for every batch response of either variant, whatever its body, the
\* normalized result has a status_code and it equals the HTTP status code of
\* the response.
C11_StatusCodeIsHttpStatus ==
    (BatchDone /\ ~reply.failed) =>
        StatusIsHttp(ProcessReply(variant, reply), reply.status_code)

\* the normalized result r exists and has data or detail, not both
OneOfDataOrDetail(r) ==
    /\ ~r.raised
    /\ r.val.t = "obj"
    /\ ~(HasKey(r.val, DATA) <=> HasKey(r.val, DETAIL))

\* the normalized result r has a detail and no data
DetailOnly(r) ==
    /\ ~r.raised
    /\ r.val.t = "obj"
    /\ HasKey(r.val, DETAIL)
    /\ ~HasKey(r.val, DATA)

\* C12: every normalized batch result of either variant has exactly one of
\* data and detail, whatever the HTTP status; a 200 response whose body is
\* unparsable has the detail and no data.
C12_ExactlyOneOfDataOrDetail ==
    (BatchDone /\ ~reply.failed) =>
        /\ OneOfDataOrDetail(ProcessReply(variant, reply))
        /\ (reply.status_code = 200 /\ reply.text \in UnparsableBodies
              => DetailOnly(ProcessReply(variant, reply)))

\* the facade was constructed without tuning options
NoOptions(kwargs) == kwargs.none \/ kwargs.d.members = <<>>

\* C13: with no configured tuning options and no stop words in the call,
\* the encoder produces the empty parameter set, for both variants.
C13_NoOptionsEmptyParams ==
    (encoded /\ NoOptions(cfg0) /\ stop.none) => params = JObj(<<>>)

\* C14: with streaming off, _stream on either variant's facade is an empty
\* sequence that ends at once: no chunk, no notification, no error and no
\* HTTP request.
C14_StreamOffYieldsNothing ==
    (kind = "stream" /\ ~streaming) =>
        /\ requests = 0
        /\ connection = "none"
        /\ events = <<>>
        /\ delivered = <<>>
        /\ effects = <<>>
        /\ outcome.type # "raised"
        /\ (pc = "done" /\ encoded => outcome = Exhausted)

\* with streaming off the consumer pulled and the sequence was exhausted
C14_Witness ==
    /\ kind = "stream" /\ ~streaming
    /\ run_manager
    /\ pc = "done" /\ encoded
    /\ outcome = Exhausted
    /\ requests = 0

\* the steps of kind op among the stream's effects
EffectsOf(op) == SelectSeq(effects, LAMBDA x : x.op = op)

\* the texts of a sequence of chunks or of effects
TextsOf(xs) == [i \in 1..Len(xs) |-> xs[i].text]

\* C15: a run manager given to a streaming call is notified once per chunk,
\* with the chunk's text, in arrival order, and each notification comes
\* right before its chunk is yielded: after the chunk's event was read,
\* before the consumer has the chunk (or _call appends it) and before the
\* next event is read. Without a run manager nothing is notified.
C15_NotifiedOncePerChunkBeforeYield ==
    /\ (run_manager =>
          /\ TextsOf(EffectsOf("token")) = TextsOf(delivered)
          /\ \A j \in 1..Len(effects) :
                /\ (effects[j].op = "yield" =>
                      /\ j > 2
                      /\ effects[j-1] = Effect("token", effects[j].text)
                      /\ effects[j-2].op = "read")
                /\ (effects[j].op = "token" =>
                      /\ j < Len(effects)
                      /\ effects[j+1].op = "yield"))
    /\ (~run_manager => EffectsOf("token") = <<>>)
    /\ Len(EffectsOf("yield")) = Len(delivered)
    /\ Len(EffectsOf("read")) = Len(events)

\* a streaming _call with a run manager: three chunks notified and appended
C15_Witness ==
    /\ run_manager /\ kind = "call"
    /\ Len(delivered) = 3
    /\ Len(EffectsOf("token")) = 3
    /\ Len(EffectsOf("append")) = 3
    /\ delivered[1] # delivered[2]

\* C16 as stated: at most one HTTP request per call, none when the sequence
\* is only created, and in batch mode exactly one request by the time the
\* call has returned or raised.
C16_OneRequestPerCall ==
    /\ requests <= 1
    /\ (pc = "created" => requests = 0)
    /\ (delivered # <<>> => requests = 1)
    /\ (kind = "call" /\ ~streaming /\ pc = "done" => requests = 1)

\* C16, amended: at most one HTTP request per call, never a second one after
\* a failure, none when the sequence is only created; in batch mode exactly
\* one request by the time the call has returned or raised, unless the call
\* was refused for its stop words (Variant B), which sends none.
C16_OneRequestUnlessRefused ==
    /\ requests <= 1
    /\ (pc = "created" => requests = 0)
    /\ (delivered # <<>> => requests = 1)
    /\ (outcome.type = "raised" /\ cause # NoErr => requests = 1)
    /\ (kind = "call" /\ ~streaming /\ pc = "done" =>
          requests = IF StopRefused(variant, stop) THEN 0 ELSE 1)

\* a batch call whose post failed: one request, the call raised
C16_Witness ==
    /\ kind = "call" /\ ~streaming /\ pc = "done"
    /\ reply.failed
    /\ outcome.type = "raised"
    /\ requests = 1

====
